---- MODULE Spec2Model ----
(***************************************************************************)
(* Fudly: inventory reservation and booking lifecycle.                     *)
(*                                                                         *)
(* The store is the SQLite file behind src/database.py.  Every Database    *)
(* method opens its own connection (get_connection), so the unit of        *)
(* atomicity is one SQL statement, or one explicit transaction             *)
(* (create_booking_atomic: BEGIN IMMEDIATE .. commit).  A handler of       *)
(* src/bot.py is a sequence of such units; a caller is a process whose pc  *)
(* is the next unit it will execute.                                       *)
(*                                                                         *)
(* deployment.serial tells how callers are scheduled: FALSE, several        *)
(* connections work on the file at once and callers interleave between     *)
(* store accesses; TRUE, one asyncio event loop runs each handler's store  *)
(* accesses without an await in between, one handler at a time.            *)
(*                                                                         *)
(*   Spec      callers interleave, at most MaxOps calls                    *)
(*   DeepSpec  callers interleave, at most MaxDeepOps calls                *)
(*   SeqSpec   one handler at a time, MaxSeqOps calls; the clock advances  *)
(*   ShopSpec  one handler at a time, MaxShopOps calls: buyers, the seller's *)
(*             offer handlers, the sweeper and the clock                   *)
(*   DeepShopSpec  the same with MaxDeepShopOps calls                      *)
(*   SweepSpec one handler at a time, MaxSweepOps calls: Reserve, Cancel,  *)
(*             the sweeper and the clock                                   *)
(*   EditSpec  callers interleave, MaxEditOps calls: buyers, the seller's   *)
(*             quantity buttons, the sweeper and the clock                 *)
(*   PickupSpec  callers interleave, MaxPickupOps calls: buyers, and the   *)
(*             seller completing bookings by pickup code                   *)
(*   PickupSeqSpec  the handlers of PickupSpec one at a time,              *)
(*             MaxPickupSeqOps calls                                       *)
(*   DeleteSpec  callers interleave, MaxDeleteOps calls: buyers, an admin  *)
(*             deleting the store, a user deleting the account             *)
(*   RateSpec  MaxRateOps calls of can_proceed while the clock advances to *)
(*             MaxClock, with RL_MAX requests per RL_WINDOW                *)
(*   CacheSpec  ShopSpec with get_active_offers and the listing cache,    *)
(*             MaxCacheOps calls                                           *)
(*   LiveSpec  the sweeper loop under fairness next to MaxLiveOps calls of *)
(*             buyers, expiry dates as the handlers store them             *)
(*   BlockSpec  one handler at a time, MaxBlockOps calls: buyers, and an   *)
(*             admin blocking the store                                    *)
(*   ExpirySpec  SweepSpec with expiry dates as the handlers store them    *)
(*   ApiSpec   MaxApiOps calls of the booking entry points, the method     *)
(*             create_booking_atomic included, with MaxCodes booking codes *)
(***************************************************************************)
EXTENDS Integers, Sequences, FiniteSets, TLC

\* ------------------------------------------------------------------ bounds
NProcs == 2
MaxQty == 2
MaxOps == 3
MaxDeepOps == 4
MaxDay == 2
MaxSeqOps == 3
MaxShopOps == 2
MaxDeepShopOps == 3
MaxSweepOps == 3
MaxCodes == 2
MaxApiOps == 2
MaxEditOps == 2
MaxPickupOps == 3
MaxBlockOps == 4
MaxPickupSeqOps == 3
MaxDeleteOps == 3
RL_MAX == 2
RL_WINDOW == 2
MaxClock == 2
MaxRateOps == 4
MaxCacheOps == 3
MaxLiveOps == 2

Procs == 1..NProcs
OfferIds == {1}
NULL == 0

VARIABLES offers, initial_quantity, bookings, today, pc, loc, log, nops, deployment, stores,
          user_requests, clock, cache

vars == <<offers, initial_quantity, bookings, today, pc, loc, log, nops, deployment, stores,
          user_requests, clock, cache>>

\* ------------------------------------------------------------ pure helpers
\* the one store of the model: every offer of OfferIds belongs to it
StoreIds == {1}
UnknownStore == 0
store_id(offer_id) == 1

\* RateLimiter: the (user_id, action) pairs that book_offer_start and
\* book_offer_quantity pass to can_proceed
RateActions == {"book_start", "book_confirm"}
RateKeys == Procs \X RateActions

\* the cache in front of the offer listings.  cache.get returns None for a
\* key that is not there (Miss); offers:city and offers:store stand for the
\* keys of the one city and the one store of the model.
CacheKeys == {"offers:all", "offers:city", "offers:store"}
Miss == [hit |-> FALSE, value |-> {}]
cache_get(c, key) == c[key]
cache_set(c, key, value) == [c EXCEPT ![key] = [hit |-> TRUE, value |-> value]]
cache_delete(c, key) == [c EXCEPT ![key] = Miss]

\* fetchone() on an empty result
NoRow == [missing |-> TRUE]

NoLoc == [op_id |-> 0, offer_id |-> 0, quantity |-> 0, booking_id |-> 0, current_qty |-> 0]

\* The expiry_date column holds text.  A value d >= 1 stands for the text
\* 'YYYY-MM-DD' of day d; a value -d stands for a text written for day d that
\* is not in that form (for example '25-12-31', from a year typed with 2 digits).

\* create_offer_expiry_date: 'dd.mm.yyyy' is split on '.' and joined as
\* year-month-day, the year as it was typed
FormatExpiry(day, four_digit_year) == IF four_digit_year THEN day ELSE 0 - day

\* the day the seller entered
EnteredDay(text) == IF text < 0 THEN 0 - text ELSE text

\* SQLite date(text): NULL for NULL and for a text that is not a time string
sqlite_date(text) == IF text = NULL \/ text < 0 THEN NULL ELSE text

\* date(expiry_date) < date('now'), with expiry_date IS NOT NULL
Expired(o) ==
    /\ o.expiry_date # NULL
    /\ sqlite_date(o.expiry_date) # NULL
    /\ sqlite_date(o.expiry_date) < today

\* Database.get_booking: the row, or no row
get_booking(bks, booking_id) ==
    IF booking_id \in 1..Len(bks) THEN bks[booking_id] ELSE NoRow

\* Database.get_offer: the row joined with its store, or no row
get_offer(ofs, offer_id) ==
    IF offer_id \in DOMAIN ofs THEN ofs[offer_id] ELSE NoRow

\* (variant) the status of the booking is not tested
OpenBooking_AnyStatus(booking) == booking # NoRow

\* cancel_booking / complete_booking: booking and booking[3] in ['pending', 'confirmed']
OpenBooking(booking) == booking # NoRow /\ booking.status \in {"pending", "confirmed"}

\* book_offer_quantity: not offer or offer[6] < quantity
PreCheckFails(offer, quantity) == offer = NoRow \/ offer.quantity < quantity

\* (variant) the UPDATE matches no row
update_booking_status_NoRow(bks, booking_id, status) == bks

\* Database.update_booking_status: UPDATE bookings SET status = ? WHERE booking_id = ?
update_booking_status(bks, booking_id, status) ==
    IF booking_id \in 1..Len(bks) /\ bks[booking_id] # NoRow
    THEN [bks EXCEPT ![booking_id].status = status]
    ELSE bks

\* (variant) the UPDATE writes the quantity and leaves the status as it is
update_offer_quantity_KeepStatus(ofs, offer_id, new_quantity) ==
    IF offer_id \notin DOMAIN ofs THEN ofs
    ELSE [ofs EXCEPT ![offer_id].quantity = IF new_quantity <= 0 THEN 0 ELSE new_quantity]

\* Database.update_offer_quantity
update_offer_quantity(ofs, offer_id, new_quantity) ==
    IF offer_id \notin DOMAIN ofs THEN ofs
    ELSE IF new_quantity <= 0
         THEN [ofs EXCEPT ![offer_id].quantity = 0, ![offer_id].status = "inactive"]
         ELSE [ofs EXCEPT ![offer_id].quantity = new_quantity, ![offer_id].status = "active"]

\* (variant) the UPDATE sets the status but writes the quantity back unchanged
TxUpdate_NoDecrement(ofs, offer_id, current_quantity, new_quantity) ==
    [ofs EXCEPT ![offer_id].quantity = current_quantity,
                ![offer_id].status = IF new_quantity <= 0 THEN "inactive" ELSE "active"]

\* (variant) the UPDATE leaves the status active at quantity 0
TxUpdate_KeepActive(ofs, offer_id, current_quantity, new_quantity) ==
    [ofs EXCEPT ![offer_id].quantity = new_quantity, ![offer_id].status = "active"]

\* create_booking_atomic, the UPDATE inside the transaction
TxUpdate(ofs, offer_id, current_quantity, new_quantity) ==
    [ofs EXCEPT ![offer_id].quantity = new_quantity,
                ![offer_id].status = IF new_quantity <= 0 THEN "inactive" ELSE "active"]

\* (variant) the INSERT creates the booking as confirmed
TxInsert_Confirmed(bks, offer_id, user_id, booking_code, quantity) ==
    Append(bks, [offer_id |-> offer_id, user_id |-> user_id, status |-> "confirmed",
                 booking_code |-> booking_code, quantity |-> quantity])

\* (variant) the INSERT leaves the quantity column to its default of 1
TxInsert_DefaultQuantity(bks, offer_id, user_id, booking_code, quantity) ==
    Append(bks, [offer_id |-> offer_id, user_id |-> user_id, status |-> "pending",
                 booking_code |-> booking_code, quantity |-> 1])

\* create_booking_atomic, the INSERT inside the transaction
TxInsert(bks, offer_id, user_id, booking_code, quantity) ==
    Append(bks, [offer_id |-> offer_id, user_id |-> user_id, status |-> "pending",
                 booking_code |-> booking_code, quantity |-> quantity])

\* (variant) the quantity is not compared
Insufficient_NoQuantity(offer, quantity) ==
    offer = NoRow \/ offer.status # "active"

\* create_booking_atomic: not offer or offer[0] < quantity or offer[1] != 'active'
Insufficient(offer, quantity) ==
    offer = NoRow \/ offer.quantity < quantity \/ offer.status # "active"

\* (variant) the except branch does not undo the UPDATE
TxRollback_Keep(before, inside) == inside

\* conn.rollback(): the store as it was at BEGIN
TxRollback(before, inside) == before

\* (variant) the SELECT and the guard do not look at the status
create_booking_atomic_AnyStatus(ofs, bks, offer_id, user_id, quantity, booking_code, fault) ==
    LET before == [offers |-> ofs, bookings |-> bks]
    IN IF offer_id \notin DOMAIN ofs \/ ofs[offer_id].quantity < quantity
       THEN [ok |-> FALSE, booking_id |-> NULL, db |-> before, fault |-> FALSE]
       ELSE LET new_quantity == ofs[offer_id].quantity - quantity
            IN [ok |-> TRUE, booking_id |-> Len(bks) + 1,
                db |-> [offers |-> TxUpdate(ofs, offer_id, ofs[offer_id].quantity, new_quantity),
                        bookings |-> TxInsert(bks, offer_id, user_id, booking_code, quantity)],
                fault |-> FALSE]

\* Database.create_booking_atomic as one transaction.  fault = an exception
\* raised after the UPDATE (the except branch rolls back).
create_booking_atomic(ofs, bks, offer_id, user_id, quantity, booking_code, fault) ==
    LET offer == IF offer_id \in DOMAIN ofs /\ ofs[offer_id].status = "active"
                 THEN ofs[offer_id] ELSE NoRow
        before == [offers |-> ofs, bookings |-> bks]
    IN IF Insufficient(offer, quantity)
       THEN [ok |-> FALSE, booking_id |-> NULL, db |-> TxRollback(before, before), fault |-> FALSE]
       ELSE LET current_quantity == offer.quantity
                new_quantity == current_quantity - quantity
                updated == [offers |-> TxUpdate(ofs, offer_id, current_quantity, new_quantity),
                            bookings |-> bks]
            IN IF fault
               THEN [ok |-> FALSE, booking_id |-> NULL, db |-> TxRollback(before, updated), fault |-> TRUE]
               ELSE [ok |-> TRUE, booking_id |-> Len(bks) + 1,
                     db |-> [offers |-> updated.offers,
                             bookings |-> TxInsert(bks, offer_id, user_id, booking_code, quantity)],
                     fault |-> FALSE]

\* Database.deactivate_offer: UPDATE offers SET status = 'inactive' WHERE offer_id = ?
deactivate_offer(ofs, offer_id) ==
    IF offer_id \in DOMAIN ofs THEN [ofs EXCEPT ![offer_id].status = "inactive"] ELSE ofs

\* Database.activate_offer: UPDATE offers SET status = 'active' WHERE offer_id = ?
activate_offer(ofs, offer_id) ==
    IF offer_id \in DOMAIN ofs THEN [ofs EXCEPT ![offer_id].status = "active"] ELSE ofs

\* Database.delete_offer: UPDATE offers SET status = "deleted" WHERE offer_id = ?
delete_offer(ofs, offer_id) ==
    IF offer_id \in DOMAIN ofs THEN [ofs EXCEPT ![offer_id].status = "deleted"] ELSE ofs

\* (variant) the UPDATE does not test the status
SweepMatches_AnyStatus(o) == Expired(o)

\* delete_expired_offers, the WHERE clause of the UPDATE
SweepMatches(o) == o.status = "active" /\ Expired(o)

\* (variant) the UPDATE also clears the quantity
delete_expired_offers_ClearQuantity(ofs) ==
    LET hit == {o \in DOMAIN ofs : SweepMatches(ofs[o])}
    IN [offers |-> [o \in DOMAIN ofs |->
                      IF o \in hit THEN [ofs[o] EXCEPT !.status = "inactive", !.quantity = 0]
                      ELSE ofs[o]],
        rowcount |-> Cardinality(hit)]

\* Database.delete_expired_offers: the offers after the UPDATE, and cursor.rowcount
delete_expired_offers(ofs) ==
    LET hit == {o \in DOMAIN ofs : SweepMatches(ofs[o])}
    IN [offers |-> [o \in DOMAIN ofs |->
                      IF o \in hit THEN [ofs[o] EXCEPT !.status = "inactive"] ELSE ofs[o]],
        rowcount |-> Cardinality(hit)]

\* -------------------------------------------------------------------- Init
Init ==
    /\ \E q \in 1..MaxQty :
         /\ offers = [o \in OfferIds |-> [quantity |-> q, status |-> "active", expiry_date |-> NULL]]
         /\ initial_quantity = [o \in OfferIds |-> q]
    /\ bookings = <<>>
    /\ today = 1
    /\ pc = [p \in Procs |-> "idle"]
    /\ loc = [p \in Procs |-> NoLoc]
    /\ log = <<>>
    /\ nops = 0
    /\ deployment = [serial |-> FALSE, calls |-> MaxOps]
    /\ stores = [s \in StoreIds |-> [status |-> "active"]]
    /\ user_requests = [k \in RateKeys |-> <<>>]
    /\ clock = 0
    /\ cache = [k \in CacheKeys |-> Miss]

\* the same store, with room for MaxDeepOps calls
InitDeep ==
    /\ \E q \in 1..MaxQty :
         /\ offers = [o \in OfferIds |-> [quantity |-> q, status |-> "active", expiry_date |-> NULL]]
         /\ initial_quantity = [o \in OfferIds |-> q]
    /\ bookings = <<>>
    /\ today = 1
    /\ pc = [p \in Procs |-> "idle"]
    /\ loc = [p \in Procs |-> NoLoc]
    /\ log = <<>>
    /\ nops = 0
    /\ deployment = [serial |-> FALSE, calls |-> MaxDeepOps]
    /\ stores = [s \in StoreIds |-> [status |-> "active"]]
    /\ user_requests = [k \in RateKeys |-> <<>>]
    /\ clock = 0
    /\ cache = [k \in CacheKeys |-> Miss]

\* a handler may start: a call is left, and in a serial deployment no other
\* handler is between two of its store accesses
Turn(p) ==
    /\ pc[p] = "idle"
    /\ nops < deployment.calls
    /\ deployment.serial => \A q \in Procs : pc[q] = "idle"

\* the record of one call: what was asked and how the handler answered
Entry(op, arg, n, outcome) ==
    [op |-> op, arg |-> arg, n |-> n, outcome |-> outcome, fault |-> FALSE]

Finish(l, id, outcome, fault) == [l EXCEPT ![id].outcome = outcome, ![id].fault = fault]

\* ---------------------------------------------------- book_offer_quantity
\* int(message.text), the quantity < 1 check and the pre-check on get_offer
\* (when get_offer returned None the answer's offer[6] raises and the generic
\* except branch answers instead)
ReserveCheck(p, offer_id, quantity) ==
    /\ Turn(p)
    /\ nops' = nops + 1
    /\ LET offer == get_offer(offers, offer_id)
       IN IF quantity < 1
          THEN /\ log' = Append(log, Entry("reserve", offer_id, quantity, "invalid_quantity"))
               /\ UNCHANGED <<pc, loc>>
          ELSE IF PreCheckFails(offer, quantity)
          THEN /\ log' = Append(log, Entry("reserve", offer_id, quantity,
                                           IF offer = NoRow THEN "error_msg" ELSE "only_available"))
               /\ UNCHANGED <<pc, loc>>
          ELSE /\ log' = Append(log, Entry("reserve", offer_id, quantity, "running"))
               /\ pc' = [pc EXCEPT ![p] = "r_atomic"]
               /\ loc' = [loc EXCEPT ![p] = [NoLoc EXCEPT !.op_id = nops + 1, !.offer_id = offer_id,
                                                          !.quantity = quantity]]
    /\ UNCHANGED <<offers, initial_quantity, bookings, today, deployment, stores, user_requests, clock, cache>>

\* db.create_booking_atomic(offer_id, user_id, quantity) and the handler's answer
ReserveAtomic(p, booking_code, fault) ==
    /\ pc[p] = "r_atomic"
    /\ LET r == create_booking_atomic(offers, bookings, loc[p].offer_id, p, loc[p].quantity,
                                      booking_code, fault)
       IN /\ offers' = r.db.offers
          /\ bookings' = r.db.bookings
          /\ log' = Finish(log, loc[p].op_id,
                           IF r.ok /\ r.booking_id # NULL THEN "booked" ELSE "no_longer_available",
                           r.fault)
    /\ pc' = [pc EXCEPT ![p] = "idle"]
    /\ loc' = [loc EXCEPT ![p] = NoLoc]
    /\ UNCHANGED <<initial_quantity, today, nops, deployment, stores, user_requests, clock, cache>>

\* --------------------------------------------------------- cancel_booking
\* booking = db.get_booking(booking_id); the status test; offer = db.get_offer(...)
CancelGet(p, booking_id) ==
    /\ Turn(p)
    /\ nops' = nops + 1
    /\ LET booking == get_booking(bookings, booking_id)
       IN IF OpenBooking(booking)
          THEN IF get_offer(offers, booking.offer_id) # NoRow
               THEN /\ log' = Append(log, Entry("cancel", booking_id, 0, "running"))
                    /\ pc' = [pc EXCEPT ![p] = "c_cancel"]
                    /\ loc' = [loc EXCEPT ![p] = [NoLoc EXCEPT !.op_id = nops + 1,
                                                               !.booking_id = booking_id,
                                                               !.offer_id = booking.offer_id,
                                                               !.quantity = booking.quantity]]
               ELSE /\ log' = Append(log, Entry("cancel", booking_id, 0, "cancelled_msg"))
                    /\ UNCHANGED <<pc, loc>>
          ELSE /\ log' = Append(log, Entry("cancel", booking_id, 0, "silent"))
               /\ UNCHANGED <<pc, loc>>
    /\ UNCHANGED <<offers, initial_quantity, bookings, today, deployment, stores, user_requests, clock, cache>>

\* db.cancel_booking(booking_id)
CancelStatus(p) ==
    /\ pc[p] = "c_cancel"
    /\ bookings' = update_booking_status(bookings, loc[p].booking_id, "cancelled")
    /\ pc' = [pc EXCEPT ![p] = "c_read"]
    /\ UNCHANGED <<offers, initial_quantity, today, loc, log, nops, deployment, stores, user_requests, clock, cache>>

\* db.increment_offer_quantity: SELECT quantity FROM offers WHERE offer_id = ?
\* (if row: when the offer row is gone nothing is written)
IncrementRead(p) ==
    /\ pc[p] = "c_read"
    /\ IF loc[p].offer_id \in DOMAIN offers
       THEN /\ loc' = [loc EXCEPT ![p].current_qty = offers[loc[p].offer_id].quantity]
            /\ pc' = [pc EXCEPT ![p] = "c_write"]
            /\ log' = log
       ELSE /\ log' = Finish(log, loc[p].op_id, "cancelled_msg", FALSE)
            /\ pc' = [pc EXCEPT ![p] = "idle"]
            /\ loc' = [loc EXCEPT ![p] = NoLoc]
    /\ UNCHANGED <<offers, initial_quantity, bookings, today, nops, deployment, stores, user_requests, clock, cache>>

\* db.increment_offer_quantity: self.update_offer_quantity(offer_id, current_qty + amount)
IncrementWrite(p) ==
    /\ pc[p] = "c_write"
    /\ offers' = update_offer_quantity(offers, loc[p].offer_id, loc[p].current_qty + loc[p].quantity)
    /\ log' = [log EXCEPT ![loc[p].op_id].outcome = "cancelled_msg",
                           ![loc[p].op_id].n = loc[p].quantity]
    /\ pc' = [pc EXCEPT ![p] = "idle"]
    /\ loc' = [loc EXCEPT ![p] = NoLoc]
    /\ UNCHANGED <<initial_quantity, bookings, today, nops, deployment, stores, user_requests, clock, cache>>

\* ------------------------------------------------------- complete_booking
\* booking = db.get_booking(booking_id) and the status test
CompleteGet(p, booking_id) ==
    /\ Turn(p)
    /\ nops' = nops + 1
    /\ LET booking == get_booking(bookings, booking_id)
       IN IF OpenBooking(booking)
          THEN /\ log' = Append(log, Entry("complete", booking_id, 0, "running"))
               /\ pc' = [pc EXCEPT ![p] = "k_update"]
               /\ loc' = [loc EXCEPT ![p] = [NoLoc EXCEPT !.op_id = nops + 1,
                                                          !.booking_id = booking_id]]
          ELSE /\ log' = Append(log, Entry("complete", booking_id, 0, "silent"))
               /\ UNCHANGED <<pc, loc>>
    /\ UNCHANGED <<offers, initial_quantity, bookings, today, deployment, stores, user_requests, clock, cache>>

\* UPDATE bookings SET status = 'completed' WHERE booking_id = ?
CompleteUpdate(p) ==
    /\ pc[p] = "k_update"
    /\ bookings' = update_booking_status(bookings, loc[p].booking_id, "completed")
    /\ log' = Finish(log, loc[p].op_id, "completed_msg", FALSE)
    /\ pc' = [pc EXCEPT ![p] = "idle"]
    /\ loc' = [loc EXCEPT ![p] = NoLoc]
    /\ UNCHANGED <<offers, initial_quantity, today, nops, deployment, stores, user_requests, clock, cache>>

\* ----------------------------------------------- confirm_delivery_process
\* (variant) the query without AND b.status = 'pending'
get_booking_by_code_AnyStatus(bks, booking_code) ==
    {b \in 1..Len(bks) : bks[b].booking_code = booking_code}

\* Database.get_booking_by_code: WHERE b.booking_code = ? AND b.status = 'pending';
\* the rows fetchone() may return (the query has no ORDER BY)
get_booking_by_code(bks, booking_code) ==
    {b \in 1..Len(bks) : bks[b].booking_code = booking_code /\ bks[b].status = "pending"}

\* (variant) the UPDATE has no WHERE clause on the booking: every booking of
\* the store is completed
complete_booking_EveryRow(bks, booking_id) ==
    [b \in 1..Len(bks) |-> [bks[b] EXCEPT !.status = "completed"]]

\* Database.complete_booking
complete_booking(bks, booking_id) == update_booking_status(bks, booking_id, "completed")

\* code = message.text.upper().strip(); booking = db.get_booking_by_code(code)
CompleteCodeGet(p, booking_code) ==
    /\ Turn(p)
    /\ nops' = nops + 1
    /\ IF get_booking_by_code(bookings, booking_code) = {}
       THEN /\ log' = Append(log, Entry("complete_code", booking_code, 0, "booking_not_found"))
            /\ UNCHANGED <<pc, loc>>
       ELSE \E b \in get_booking_by_code(bookings, booking_code) :
            /\ log' = Append(log, Entry("complete_code", booking_code, b, "running"))
            /\ pc' = [pc EXCEPT ![p] = "k_code"]
            /\ loc' = [loc EXCEPT ![p] = [NoLoc EXCEPT !.op_id = nops + 1, !.booking_id = b]]
    /\ UNCHANGED <<offers, initial_quantity, bookings, today, deployment, stores, user_requests, clock, cache>>

\* db.complete_booking(booking[0]); the answer order_confirmed
CompleteCodeUpdate(p) ==
    /\ pc[p] = "k_code"
    /\ bookings' = complete_booking(bookings, loc[p].booking_id)
    /\ log' = Finish(log, loc[p].op_id, "order_confirmed", FALSE)
    /\ pc' = [pc EXCEPT ![p] = "idle"]
    /\ loc' = [loc EXCEPT ![p] = NoLoc]
    /\ UNCHANGED <<offers, initial_quantity, today, nops, deployment, stores, user_requests, clock, cache>>

\* ------------------------------------------------------------------ clock
\* date('now') moves to the next day
Tick ==
    /\ today < MaxDay
    /\ today' = today + 1
    /\ UNCHANGED <<offers, initial_quantity, bookings, pc, loc, log, nops, deployment, stores, user_requests, clock, cache>>

\* ------------------------------------------------------------------- Next
Codes == {1}

Step(p) ==
    \/ \E o \in OfferIds, n \in 0..MaxQty : ReserveCheck(p, o, n)
    \/ \E c \in Codes, fault \in BOOLEAN : ReserveAtomic(p, c, fault)
    \/ \E b \in 1..(Len(bookings) + 1) : CancelGet(p, b)
    \/ CancelStatus(p)
    \/ IncrementRead(p)
    \/ IncrementWrite(p)
    \/ \E b \in 1..(Len(bookings) + 1) : CompleteGet(p, b)
    \/ CompleteUpdate(p)

Next == \E p \in Procs : Step(p)

Spec == Init /\ [][Next]_vars

DeepSpec == InitDeep /\ [][Next]_vars

\* One event loop: a handler's store accesses are not separated by an await,
\* so a handler runs to its end before the next one starts.
InitSeq ==
    /\ \E q \in 1..MaxQty, e \in {NULL} \cup (1..MaxDay) :
         /\ offers = [o \in OfferIds |-> [quantity |-> q, status |-> "active", expiry_date |-> e]]
         /\ initial_quantity = [o \in OfferIds |-> q]
    /\ bookings = <<>>
    /\ today = 1
    /\ pc = [p \in Procs |-> "idle"]
    /\ loc = [p \in Procs |-> NoLoc]
    /\ log = <<>>
    /\ nops = 0
    /\ deployment = [serial |-> TRUE, calls |-> MaxSeqOps]
    /\ stores = [s \in StoreIds |-> [status |-> "active"]]
    /\ user_requests = [k \in RateKeys |-> <<>>]
    /\ clock = 0
    /\ cache = [k \in CacheKeys |-> Miss]

SeqNext == Next \/ Tick

SeqSpec == InitSeq /\ [][SeqNext]_vars

\* ------------------------------------------------- seller's offer handlers
\* deactivate_offer / activate_offer / delete_offer of bot.py: get_offer, the
\* ownership test, then the Database method.  owner = the caller owns the store.
SellerOps == {"deactivate", "activate", "delete"}

SellerEdit(p, op, offer_id, owner) ==
    /\ Turn(p)
    /\ nops' = nops + 1
    /\ LET offer == get_offer(offers, offer_id)
       IN IF offer = NoRow
          THEN /\ log' = Append(log, Entry(op, offer_id, 0, "offer_not_found"))
               /\ UNCHANGED <<offers, cache>>
          ELSE IF ~owner
          THEN /\ log' = Append(log, Entry(op, offer_id, 0, "not_your_offer"))
               /\ UNCHANGED <<offers, cache>>
          ELSE /\ log' = Append(log, Entry(op, offer_id, 0, "done"))
               /\ offers' = CASE op = "deactivate" -> deactivate_offer(offers, offer_id)
                               [] op = "activate" -> activate_offer(offers, offer_id)
                               [] op = "delete" -> delete_offer(offers, offer_id)
               /\ cache' = cache_delete(cache, "offers:all")
    /\ UNCHANGED <<initial_quantity, bookings, today, pc, loc, deployment, stores, user_requests, clock>>

\* ------------------------------------------- quantity_add, quantity_subtract
\* new_quantity = offer[6] + 1, or max(0, offer[6] - 1)
NewQuantity(op, current_qty) ==
    IF op = "qty_add" THEN current_qty + 1
    ELSE IF current_qty - 1 > 0 THEN current_qty - 1 ELSE 0

QuantityOps == {"qty_add", "qty_sub"}

\* offer = db.get_offer(offer_id), the ownership test, new_quantity
QuantityRead(p, op, offer_id, owner) ==
    /\ Turn(p)
    /\ nops' = nops + 1
    /\ LET offer == get_offer(offers, offer_id)
       IN IF offer = NoRow
          THEN /\ log' = Append(log, Entry(op, offer_id, 0, "offer_not_found"))
               /\ UNCHANGED <<pc, loc>>
          ELSE IF ~owner
          THEN /\ log' = Append(log, Entry(op, offer_id, 0, "not_your_offer"))
               /\ UNCHANGED <<pc, loc>>
          ELSE /\ log' = Append(log, Entry(op, offer_id, NewQuantity(op, offer.quantity), "running"))
               /\ pc' = [pc EXCEPT ![p] = "q_write"]
               /\ loc' = [loc EXCEPT ![p] = [NoLoc EXCEPT !.op_id = nops + 1, !.offer_id = offer_id,
                                                          !.current_qty = offer.quantity,
                                                          !.quantity = NewQuantity(op, offer.quantity)]]
    /\ UNCHANGED <<offers, initial_quantity, bookings, today, deployment, stores, user_requests, clock, cache>>

\* db.update_offer_quantity(offer_id, new_quantity)
QuantityWrite(p) ==
    /\ pc[p] = "q_write"
    /\ offers' = update_offer_quantity(offers, loc[p].offer_id, loc[p].quantity)
    /\ log' = Finish(log, loc[p].op_id, "done", FALSE)
    /\ pc' = [pc EXCEPT ![p] = "idle"]
    /\ loc' = [loc EXCEPT ![p] = NoLoc]
    /\ UNCHANGED <<initial_quantity, bookings, today, nops, deployment, stores, user_requests, clock, cache>>

\* ------------------------------------------- Database.get_active_offers
\* the rows of the SELECT that the loop over expiry dates keeps: the offer is
\* active with quantity > 0, its store is active, date(expiry_date) >=
\* date('now'), and the parsed expiry date is not before datetime.now()
Listed(ofs, sts, day, o) ==
    /\ ofs[o].status = "active"
    /\ ofs[o].quantity > 0
    /\ store_id(o) \in DOMAIN sts /\ sts[store_id(o)].status = "active"
    /\ sqlite_date(ofs[o].expiry_date) # NULL
    /\ sqlite_date(ofs[o].expiry_date) >= day
    /\ ofs[o].expiry_date > day

\* the list get_active_offers computes: each listed offer with its quantity
ActiveOffers(ofs, sts, day) ==
    {<<o, ofs[o].quantity>> : o \in {x \in DOMAIN ofs : Listed(ofs, sts, day, x)}}

\* Database.get_active_offers(city, store_id): the cached list when the key
\* is in the cache, else the list from the store, which is then cached
GetActiveOffers(key) ==
    /\ nops < deployment.calls
    /\ deployment.serial => \A q \in Procs : pc[q] = "idle"
    /\ nops' = nops + 1
    /\ IF cache_get(cache, key).hit
       THEN /\ log' = Append(log, Entry("get_active_offers", key, cache_get(cache, key).value, "cached"))
            /\ cache' = cache
       ELSE /\ log' = Append(log, Entry("get_active_offers", key, ActiveOffers(offers, stores, today), "fresh"))
            /\ cache' = cache_set(cache, key, ActiveOffers(offers, stores, today))
    /\ UNCHANGED <<offers, initial_quantity, bookings, today, pc, loc, deployment, stores, user_requests, clock>>

\* the time to live of an entry runs out
CacheExpire(key) ==
    /\ cache[key].hit
    /\ cache' = cache_delete(cache, key)
    /\ UNCHANGED <<offers, initial_quantity, bookings, today, pc, loc, log, nops, deployment, stores,
                   user_requests, clock>>

\* ------------------------------------------------- RateLimiter.is_allowed
\* [ts for ts in requests if current_time - ts < window_seconds]
CleanOld(requests, current_time, window_seconds) ==
    SelectSeq(requests, LAMBDA ts : current_time - ts < window_seconds)

\* (variant) the limit is compared with <=
UnderLimit_Inclusive(requests, max_requests) == Len(requests) <= max_requests

\* len(self._user_requests[user_id][action]) < max_requests
UnderLimit(requests, max_requests) == Len(requests) < max_requests

\* RateLimiter.is_allowed on the list kept for one (user_id, action); a pair
\* not seen before gets the empty list
is_allowed(requests, current_time, max_requests, window_seconds) ==
    LET kept == CleanOld(requests, current_time, window_seconds)
    IN IF UnderLimit(kept, max_requests)
       THEN [allowed |-> TRUE, requests |-> Append(kept, current_time)]
       ELSE [allowed |-> FALSE, requests |-> kept]

\* can_proceed(user_id, action): rate_limiter.is_allowed with RL_MAX, RL_WINDOW.
\* (The source allows 30 requests per 60 seconds; the handler specifications
\* above make fewer calls than that, so there can_proceed answers True.)
CanProceed(user_id, action) ==
    /\ nops < deployment.calls
    /\ nops' = nops + 1
    /\ LET r == is_allowed(user_requests[<<user_id, action>>], clock, RL_MAX, RL_WINDOW)
       IN /\ user_requests' = [user_requests EXCEPT ![<<user_id, action>>] = r.requests]
          /\ log' = Append(log, Entry("is_allowed", <<user_id, action>>, clock,
                                      IF r.allowed THEN "allowed" ELSE "denied"))
    /\ UNCHANGED <<offers, initial_quantity, bookings, today, pc, loc, deployment, stores, clock, cache>>

\* time.time() read by the next call is later
ClockTick ==
    /\ clock < MaxClock
    /\ clock' = clock + 1
    /\ UNCHANGED <<offers, initial_quantity, bookings, today, pc, loc, log, nops, deployment, stores,
                   user_requests, cache>>

\* ------------------------------------------------ delete_store, delete_user
\* the owner of every store of the model is the seller; buyers are the Procs
SellerId == 0
owner_id(sid) == SellerId
Users == Procs \cup {SellerId}

\* DELETE FROM bookings WHERE offer_id IN (SELECT offer_id FROM offers WHERE store_id = ?).
\* booking_id is AUTOINCREMENT: the place of a deleted row is never reused.
delete_store_bookings(bks, ofs, sid) ==
    [b \in 1..Len(bks) |->
        IF bks[b] # NoRow /\ bks[b].offer_id \in DOMAIN ofs /\ store_id(bks[b].offer_id) = sid
        THEN NoRow ELSE bks[b]]

\* DELETE FROM offers WHERE store_id = ?
delete_store_offers(ofs, sid) ==
    [o \in {x \in DOMAIN ofs : store_id(x) # sid} |-> ofs[o]]

\* DELETE FROM stores WHERE store_id = ?
delete_store_row(sts, sid) == [x \in DOMAIN sts \ {sid} |-> sts[x]]

\* Database.delete_store, one transaction over the three tables
delete_store(db, sid) ==
    IF sid \notin DOMAIN db.stores THEN db
    ELSE [offers |-> delete_store_offers(db.offers, sid),
          bookings |-> delete_store_bookings(db.bookings, db.offers, sid),
          stores |-> delete_store_row(db.stores, sid)]

RECURSIVE delete_user_stores(_, _)
\* Database.delete_user, the loop over the stores the user owns
delete_user_stores(db, sids) ==
    IF sids = {} THEN db
    ELSE LET sid == CHOOSE x \in sids : TRUE
         IN delete_user_stores(delete_store(db, sid), sids \ {sid})

\* Database.delete_user: the stores of the user with their offers and the
\* bookings on them, then DELETE FROM bookings WHERE user_id = ?
delete_user(db, user_id) ==
    LET d == delete_user_stores(db, {sid \in DOMAIN db.stores : owner_id(sid) = user_id})
    IN [d EXCEPT !.bookings =
           [b \in 1..Len(d.bookings) |->
               IF d.bookings[b] # NoRow /\ d.bookings[b].user_id = user_id
               THEN NoRow ELSE d.bookings[b]]]

\* delete_store_callback: the is_admin test, then db.delete_store(store_id)
DeleteStore(p, sid, is_admin) ==
    /\ Turn(p)
    /\ nops' = nops + 1
    /\ IF ~is_admin
       THEN /\ log' = Append(log, Entry("delete_store", sid, 0, "access_denied"))
            /\ UNCHANGED <<offers, bookings, stores, user_requests, clock, cache>>
       ELSE LET d == delete_store([offers |-> offers, bookings |-> bookings, stores |-> stores], sid)
            IN /\ offers' = d.offers
               /\ bookings' = d.bookings
               /\ stores' = d.stores
               /\ log' = Append(log, Entry("delete_store", sid, 0, "deleted"))
    /\ UNCHANGED <<initial_quantity, today, pc, loc, deployment, user_requests, clock, cache>>

\* confirm_delete_yes: db.delete_user(callback.from_user.id)
DeleteUser(p, user_id) ==
    /\ Turn(p)
    /\ nops' = nops + 1
    /\ LET d == delete_user([offers |-> offers, bookings |-> bookings, stores |-> stores], user_id)
       IN /\ offers' = d.offers
          /\ bookings' = d.bookings
          /\ stores' = d.stores
    /\ log' = Append(log, Entry("delete_user", user_id, 0, "account_deleted"))
    /\ UNCHANGED <<initial_quantity, today, pc, loc, deployment, user_requests, clock, cache>>

\* ------------------------------------- cancel_booking, read by read
\* booking = db.get_booking(booking_id) and the status test
CancelLookup(p, booking_id) ==
    /\ Turn(p)
    /\ nops' = nops + 1
    /\ LET booking == get_booking(bookings, booking_id)
       IN IF OpenBooking(booking)
          THEN /\ log' = Append(log, Entry("cancel", booking_id, 0, "running"))
               /\ pc' = [pc EXCEPT ![p] = "c_offer"]
               /\ loc' = [loc EXCEPT ![p] = [NoLoc EXCEPT !.op_id = nops + 1,
                                                          !.booking_id = booking_id,
                                                          !.offer_id = booking.offer_id,
                                                          !.quantity = booking.quantity]]
          ELSE /\ log' = Append(log, Entry("cancel", booking_id, 0, "silent"))
               /\ UNCHANGED <<pc, loc>>
    /\ UNCHANGED <<offers, initial_quantity, bookings, today, deployment, stores, user_requests, clock, cache>>

\* (variant) the handler does not test what get_offer returned
OfferLoaded_Always(offer) == TRUE

\* if offer:
OfferLoaded(offer) == offer # NoRow

\* offer = db.get_offer(booking[1]); without an offer only the message is edited
CancelLoadOffer(p) ==
    /\ pc[p] = "c_offer"
    /\ IF OfferLoaded(get_offer(offers, loc[p].offer_id))
       THEN /\ pc' = [pc EXCEPT ![p] = "c_cancel"]
            /\ UNCHANGED <<loc, log>>
       ELSE /\ log' = Finish(log, loc[p].op_id, "no_offer", FALSE)
            /\ pc' = [pc EXCEPT ![p] = "idle"]
            /\ loc' = [loc EXCEPT ![p] = NoLoc]
    /\ UNCHANGED <<offers, initial_quantity, bookings, today, nops, deployment, stores, user_requests, clock, cache>>

\* ------------------------------------------------ admin_block_store_callback
\* UPDATE stores SET status = "rejected" WHERE store_id = ?
block_store(sts, sid) == [sts EXCEPT ![sid].status = "rejected"]

\* UPDATE offers SET status = "inactive" WHERE store_id = ?
deactivate_store_offers(ofs, sid) ==
    [o \in DOMAIN ofs |-> IF store_id(o) = sid THEN [ofs[o] EXCEPT !.status = "inactive"] ELSE ofs[o]]

\* the is_admin test, the SELECT of the store, the two UPDATEs and one commit
AdminBlock(p, sid, is_admin) ==
    /\ Turn(p)
    /\ nops' = nops + 1
    /\ IF ~is_admin
       THEN /\ log' = Append(log, Entry("admin_block", sid, 0, "access_denied"))
            /\ UNCHANGED <<offers, stores, user_requests, clock, cache>>
       ELSE IF sid \notin DOMAIN stores
       THEN /\ log' = Append(log, Entry("admin_block", sid, 0, "store_not_found"))
            /\ UNCHANGED <<offers, stores, user_requests, clock, cache>>
       ELSE /\ stores' = block_store(stores, sid)
            /\ offers' = deactivate_store_offers(offers, sid)
            /\ log' = Append(log, Entry("admin_block", sid, 0, "blocked"))
    /\ UNCHANGED <<initial_quantity, bookings, today, pc, loc, deployment, user_requests, clock, cache>>

\* ---------------------------------------------------- cleanup_expired_offers
\* one round of the background task: db.delete_expired_offers()
Sweep ==
    /\ nops < deployment.calls
    /\ deployment.serial => \A q \in Procs : pc[q] = "idle"
    /\ nops' = nops + 1
    /\ LET r == delete_expired_offers(offers)
       IN /\ offers' = r.offers
          /\ log' = Append(log, Entry("sweep", today, r.rowcount, "done"))
    /\ cache' = cache_delete(cache, "offers:all")
    /\ UNCHANGED <<initial_quantity, bookings, today, pc, loc, deployment, stores, user_requests, clock>>

\* ------------------------------------------ cleanup_expired_offers, the loop
\* the background task created by main(); its place in pc
Sweeper == 0

\* await asyncio.sleep(300) returns
SweeperWake ==
    /\ pc[Sweeper] = "sleeping"
    /\ pc' = [pc EXCEPT ![Sweeper] = "sweeping"]
    /\ UNCHANGED <<offers, initial_quantity, bookings, today, loc, log, nops, deployment, stores,
                   user_requests, clock, cache>>

\* deleted_count = db.delete_expired_offers(), or an exception raised by it
\* that the except branch prints; the loop goes back to sleep either way
SweeperPass(fault) ==
    /\ pc[Sweeper] = "sweeping"
    /\ pc' = [pc EXCEPT ![Sweeper] = "sleeping"]
    /\ IF fault
       THEN UNCHANGED <<offers, cache>>
       ELSE /\ offers' = delete_expired_offers(offers).offers
            /\ cache' = cache_delete(cache, "offers:all")
    /\ UNCHANGED <<initial_quantity, bookings, today, loc, log, nops, deployment, stores,
                   user_requests, clock>>

\* ------------------------------------------ Database.create_booking_atomic
\* the method called by a caller other than book_offer_quantity: no check of
\* the quantity precedes it
CallCreateBookingAtomic(p, offer_id, quantity, booking_code, fault) ==
    /\ Turn(p)
    /\ nops' = nops + 1
    /\ LET r == create_booking_atomic(offers, bookings, offer_id, p, quantity, booking_code, fault)
       IN /\ offers' = r.db.offers
          /\ bookings' = r.db.bookings
          /\ log' = Append(log, [Entry("create_booking_atomic", offer_id, quantity,
                                       IF r.ok THEN "booked" ELSE "refused")
                                 EXCEPT !.fault = r.fault])
    /\ UNCHANGED <<initial_quantity, today, pc, loc, deployment, stores, user_requests, clock, cache>>

\* ---------------------------------------------------------------- ShopSpec
\* the offer ids a caller may name: the rows of the table and an id without a row
UnknownOffer == 0
OfferRefs == OfferIds \cup {UnknownOffer}

\* the values random.choices may produce
BookingCodes == 1..MaxCodes

InitShop ==
    /\ \E q \in 1..MaxQty, e \in {NULL} \cup (1..MaxDay) :
         /\ offers = [o \in OfferIds |-> [quantity |-> q, status |-> "active", expiry_date |-> e]]
         /\ initial_quantity = [o \in OfferIds |-> q]
    /\ bookings = <<>>
    /\ today = 1
    /\ pc = [p \in Procs |-> "idle"]
    /\ loc = [p \in Procs |-> NoLoc]
    /\ log = <<>>
    /\ nops = 0
    /\ deployment = [serial |-> TRUE, calls |-> MaxShopOps]
    /\ stores = [s \in StoreIds |-> [status |-> "active"]]
    /\ user_requests = [k \in RateKeys |-> <<>>]
    /\ clock = 0
    /\ cache = [k \in CacheKeys |-> Miss]

ShopStep(p) ==
    \/ \E o \in OfferRefs, n \in 0..MaxQty : ReserveCheck(p, o, n)
    \/ \E c \in Codes, fault \in BOOLEAN : ReserveAtomic(p, c, fault)
    \/ \E b \in 1..(Len(bookings) + 1) : CancelGet(p, b)
    \/ CancelStatus(p)
    \/ IncrementRead(p)
    \/ IncrementWrite(p)
    \/ \E b \in 1..(Len(bookings) + 1) : CompleteGet(p, b)
    \/ CompleteUpdate(p)
    \/ \E op \in SellerOps, o \in OfferRefs, owner \in BOOLEAN : SellerEdit(p, op, o, owner)

ShopNext == (\E p \in Procs : ShopStep(p)) \/ Sweep \/ Tick

ShopSpec == InitShop /\ [][ShopNext]_vars

\* the same shop, with room for MaxDeepShopOps calls
InitDeepShop ==
    /\ \E q \in 1..MaxQty, e \in {NULL} \cup (1..MaxDay) :
         /\ offers = [o \in OfferIds |-> [quantity |-> q, status |-> "active", expiry_date |-> e]]
         /\ initial_quantity = [o \in OfferIds |-> q]
    /\ bookings = <<>>
    /\ today = 1
    /\ pc = [p \in Procs |-> "idle"]
    /\ loc = [p \in Procs |-> NoLoc]
    /\ log = <<>>
    /\ nops = 0
    /\ deployment = [serial |-> TRUE, calls |-> MaxDeepShopOps]
    /\ stores = [s \in StoreIds |-> [status |-> "active"]]
    /\ user_requests = [k \in RateKeys |-> <<>>]
    /\ clock = 0
    /\ cache = [k \in CacheKeys |-> Miss]

DeepShopSpec == InitDeepShop /\ [][ShopNext]_vars

\* --------------------------------------------------------------- SweepSpec
\* buyers reserve and cancel while the clock advances and the sweeper runs
InitSweep ==
    /\ \E q \in 1..MaxQty, e \in {NULL} \cup (1..MaxDay) :
         /\ offers = [o \in OfferIds |-> [quantity |-> q, status |-> "active", expiry_date |-> e]]
         /\ initial_quantity = [o \in OfferIds |-> q]
    /\ bookings = <<>>
    /\ today = 1
    /\ pc = [p \in Procs |-> "idle"]
    /\ loc = [p \in Procs |-> NoLoc]
    /\ log = <<>>
    /\ nops = 0
    /\ deployment = [serial |-> TRUE, calls |-> MaxSweepOps]
    /\ stores = [s \in StoreIds |-> [status |-> "active"]]
    /\ user_requests = [k \in RateKeys |-> <<>>]
    /\ clock = 0
    /\ cache = [k \in CacheKeys |-> Miss]

SweepStep(p) ==
    \/ \E o \in OfferIds, n \in 0..MaxQty : ReserveCheck(p, o, n)
    \/ \E c \in Codes, fault \in BOOLEAN : ReserveAtomic(p, c, fault)
    \/ \E b \in 1..(Len(bookings) + 1) : CancelGet(p, b)
    \/ CancelStatus(p)
    \/ IncrementRead(p)
    \/ IncrementWrite(p)

SweepNext == (\E p \in Procs : SweepStep(p)) \/ Sweep \/ Tick

SweepSpec == InitSweep /\ [][SweepNext]_vars

\* ---------------------------------------------------------------- EditSpec
\* callers interleave: buyers, the seller's quantity buttons, the sweeper
InitEdit ==
    /\ \E q \in 1..MaxQty, e \in {NULL} \cup (1..MaxDay) :
         /\ offers = [o \in OfferIds |-> [quantity |-> q, status |-> "active", expiry_date |-> e]]
         /\ initial_quantity = [o \in OfferIds |-> q]
    /\ bookings = <<>>
    /\ today = 1
    /\ pc = [p \in Procs |-> "idle"]
    /\ loc = [p \in Procs |-> NoLoc]
    /\ log = <<>>
    /\ nops = 0
    /\ deployment = [serial |-> FALSE, calls |-> MaxEditOps]
    /\ stores = [s \in StoreIds |-> [status |-> "active"]]
    /\ user_requests = [k \in RateKeys |-> <<>>]
    /\ clock = 0
    /\ cache = [k \in CacheKeys |-> Miss]

EditStep(p) ==
    \/ \E o \in OfferIds, n \in 0..MaxQty : ReserveCheck(p, o, n)
    \/ \E c \in Codes, fault \in BOOLEAN : ReserveAtomic(p, c, fault)
    \/ \E b \in 1..(Len(bookings) + 1) : CancelGet(p, b)
    \/ CancelStatus(p)
    \/ IncrementRead(p)
    \/ IncrementWrite(p)
    \/ \E b \in 1..(Len(bookings) + 1) : CompleteGet(p, b)
    \/ CompleteUpdate(p)
    \/ \E op \in QuantityOps, o \in OfferRefs, owner \in BOOLEAN : QuantityRead(p, op, o, owner)
    \/ QuantityWrite(p)

EditNext == (\E p \in Procs : EditStep(p)) \/ Sweep \/ Tick

EditSpec == InitEdit /\ [][EditNext]_vars

\* -------------------------------------------------------------- PickupSpec
\* buyers reserve, cancel and complete by button while the seller completes
\* by pickup code; callers interleave
InitPickup ==
    /\ \E q \in 1..MaxQty :
         /\ offers = [o \in OfferIds |-> [quantity |-> q, status |-> "active", expiry_date |-> NULL]]
         /\ initial_quantity = [o \in OfferIds |-> q]
    /\ bookings = <<>>
    /\ today = 1
    /\ pc = [p \in Procs |-> "idle"]
    /\ loc = [p \in Procs |-> NoLoc]
    /\ log = <<>>
    /\ nops = 0
    /\ deployment = [serial |-> FALSE, calls |-> MaxPickupOps]
    /\ stores = [s \in StoreIds |-> [status |-> "active"]]
    /\ user_requests = [k \in RateKeys |-> <<>>]
    /\ clock = 0
    /\ cache = [k \in CacheKeys |-> Miss]

PickupStep(p) ==
    \/ \E o \in OfferIds, n \in 0..MaxQty : ReserveCheck(p, o, n)
    \/ \E c \in Codes, fault \in BOOLEAN : ReserveAtomic(p, c, fault)
    \/ \E b \in 1..(Len(bookings) + 1) : CancelGet(p, b)
    \/ CancelStatus(p)
    \/ IncrementRead(p)
    \/ IncrementWrite(p)
    \/ \E b \in 1..(Len(bookings) + 1) : CompleteGet(p, b)
    \/ CompleteUpdate(p)
    \/ \E c \in Codes : CompleteCodeGet(p, c)
    \/ CompleteCodeUpdate(p)

PickupNext == \E p \in Procs : PickupStep(p)

PickupSpec == InitPickup /\ [][PickupNext]_vars

\* ----------------------------------------------------------- PickupSeqSpec
\* the handlers of PickupSpec, one at a time
InitPickupSeq ==
    /\ \E q \in 1..MaxQty :
         /\ offers = [o \in OfferIds |-> [quantity |-> q, status |-> "active", expiry_date |-> NULL]]
         /\ initial_quantity = [o \in OfferIds |-> q]
    /\ bookings = <<>>
    /\ today = 1
    /\ pc = [p \in Procs |-> "idle"]
    /\ loc = [p \in Procs |-> NoLoc]
    /\ log = <<>>
    /\ nops = 0
    /\ deployment = [serial |-> TRUE, calls |-> MaxPickupSeqOps]
    /\ stores = [s \in StoreIds |-> [status |-> "active"]]
    /\ user_requests = [k \in RateKeys |-> <<>>]
    /\ clock = 0
    /\ cache = [k \in CacheKeys |-> Miss]

PickupSeqSpec == InitPickupSeq /\ [][PickupNext]_vars

\* -------------------------------------------------------------- DeleteSpec
\* buyers reserve and cancel while an admin deletes the store or a user
\* deletes the account; callers interleave
InitDelete ==
    /\ \E q \in 1..MaxQty :
         /\ offers = [o \in OfferIds |-> [quantity |-> q, status |-> "active", expiry_date |-> NULL]]
         /\ initial_quantity = [o \in OfferIds |-> q]
    /\ bookings = <<>>
    /\ today = 1
    /\ pc = [p \in Procs |-> "idle"]
    /\ loc = [p \in Procs |-> NoLoc]
    /\ log = <<>>
    /\ nops = 0
    /\ deployment = [serial |-> FALSE, calls |-> MaxDeleteOps]
    /\ stores = [s \in StoreIds |-> [status |-> "active"]]
    /\ user_requests = [k \in RateKeys |-> <<>>]
    /\ clock = 0
    /\ cache = [k \in CacheKeys |-> Miss]

DeleteStep(p) ==
    \/ \E o \in OfferIds, n \in 0..MaxQty : ReserveCheck(p, o, n)
    \/ \E c \in Codes, fault \in BOOLEAN : ReserveAtomic(p, c, fault)
    \/ \E b \in 1..(Len(bookings) + 1) : CancelLookup(p, b)
    \/ CancelLoadOffer(p)
    \/ CancelStatus(p)
    \/ IncrementRead(p)
    \/ IncrementWrite(p)
    \/ \E sid \in StoreIds \cup {UnknownStore}, is_admin \in BOOLEAN : DeleteStore(p, sid, is_admin)
    \/ \E u \in Users : DeleteUser(p, u)

DeleteNext == \E p \in Procs : DeleteStep(p)

DeleteSpec == InitDelete /\ [][DeleteNext]_vars

\* ---------------------------------------------------------------- RateSpec
\* calls of can_proceed by the booking handlers while time passes
InitRate ==
    /\ offers = [o \in OfferIds |-> [quantity |-> 1, status |-> "active", expiry_date |-> NULL]]
    /\ initial_quantity = [o \in OfferIds |-> 1]
    /\ bookings = <<>>
    /\ today = 1
    /\ pc = [p \in Procs |-> "idle"]
    /\ loc = [p \in Procs |-> NoLoc]
    /\ log = <<>>
    /\ nops = 0
    /\ deployment = [serial |-> TRUE, calls |-> MaxRateOps]
    /\ stores = [s \in StoreIds |-> [status |-> "active"]]
    /\ user_requests = [k \in RateKeys |-> <<>>]
    /\ clock = 0
    /\ cache = [k \in CacheKeys |-> Miss]

RateNext ==
    \/ \E u \in Procs, a \in RateActions : CanProceed(u, a)
    \/ ClockTick

RateSpec == InitRate /\ [][RateNext]_vars

\* --------------------------------------------------------------- CacheSpec
\* the handlers of ShopSpec, with buyers browsing the listings
InitCache ==
    /\ \E q \in 1..MaxQty, e \in {NULL} \cup (1..MaxDay) :
         /\ offers = [o \in OfferIds |-> [quantity |-> q, status |-> "active", expiry_date |-> e]]
         /\ initial_quantity = [o \in OfferIds |-> q]
    /\ bookings = <<>>
    /\ today = 1
    /\ pc = [p \in Procs |-> "idle"]
    /\ loc = [p \in Procs |-> NoLoc]
    /\ log = <<>>
    /\ nops = 0
    /\ deployment = [serial |-> TRUE, calls |-> MaxCacheOps]
    /\ stores = [s \in StoreIds |-> [status |-> "active"]]
    /\ user_requests = [k \in RateKeys |-> <<>>]
    /\ clock = 0
    /\ cache = [k \in CacheKeys |-> Miss]

CacheNext ==
    \/ \E p \in Procs : ShopStep(p)
    \/ Sweep
    \/ Tick
    \/ \E k \in CacheKeys : GetActiveOffers(k)
    \/ \E k \in CacheKeys : CacheExpire(k)

CacheSpec == InitCache /\ [][CacheNext]_vars

\* ---------------------------------------------------------------- LiveSpec
\* the background task runs for ever next to MaxLiveOps calls of buyers; the
\* sleep always ends, and a pass is not refused by an exception for ever
InitLive ==
    /\ \E q \in 1..MaxQty,
          e \in {NULL} \cup {FormatExpiry(d, y) : d \in 1..MaxDay, y \in BOOLEAN} :
         /\ offers = [o \in OfferIds |-> [quantity |-> q, status |-> "active", expiry_date |-> e]]
         /\ initial_quantity = [o \in OfferIds |-> q]
    /\ bookings = <<>>
    /\ today = 1
    /\ pc = [p \in Procs \cup {Sweeper} |-> IF p = Sweeper THEN "sleeping" ELSE "idle"]
    /\ loc = [p \in Procs |-> NoLoc]
    /\ log = <<>>
    /\ nops = 0
    /\ deployment = [serial |-> FALSE, calls |-> MaxLiveOps]
    /\ stores = [s \in StoreIds |-> [status |-> "active"]]
    /\ user_requests = [k \in RateKeys |-> <<>>]
    /\ clock = 0
    /\ cache = [k \in CacheKeys |-> Miss]

LiveNext ==
    \/ \E p \in Procs : SweepStep(p)
    \/ Tick
    \/ SweeperWake
    \/ \E fault \in BOOLEAN : SweeperPass(fault)

LiveSpec ==
    /\ InitLive /\ [][LiveNext]_vars
    /\ WF_vars(SweeperWake)
    /\ SF_vars(SweeperPass(FALSE))

\* --------------------------------------------------------------- BlockSpec
\* buyers reserve and cancel while an admin may block the store; one handler
\* at a time
InitBlock ==
    /\ \E q \in 1..MaxQty :
         /\ offers = [o \in OfferIds |-> [quantity |-> q, status |-> "active", expiry_date |-> NULL]]
         /\ initial_quantity = [o \in OfferIds |-> q]
    /\ bookings = <<>>
    /\ today = 1
    /\ pc = [p \in Procs |-> "idle"]
    /\ loc = [p \in Procs |-> NoLoc]
    /\ log = <<>>
    /\ nops = 0
    /\ deployment = [serial |-> TRUE, calls |-> MaxBlockOps]
    /\ stores = [s \in StoreIds |-> [status |-> "active"]]
    /\ user_requests = [k \in RateKeys |-> <<>>]
    /\ clock = 0
    /\ cache = [k \in CacheKeys |-> Miss]

BlockStep(p) ==
    \/ \E o \in OfferIds, n \in 0..MaxQty : ReserveCheck(p, o, n)
    \/ \E c \in Codes, fault \in BOOLEAN : ReserveAtomic(p, c, fault)
    \/ \E b \in 1..(Len(bookings) + 1) : CancelGet(p, b)
    \/ CancelStatus(p)
    \/ IncrementRead(p)
    \/ IncrementWrite(p)
    \/ \E sid \in StoreIds \cup {UnknownStore}, is_admin \in BOOLEAN : AdminBlock(p, sid, is_admin)

BlockNext == \E p \in Procs : BlockStep(p)

BlockSpec == InitBlock /\ [][BlockNext]_vars

\* -------------------------------------------------------------- ExpirySpec
\* SweepSpec with the expiry date as the seller's handlers store it: no date,
\* a date from a button, or a date typed by hand
InitExpiry ==
    /\ \E q \in 1..MaxQty,
          e \in {NULL} \cup {FormatExpiry(d, y) : d \in 1..MaxDay, y \in BOOLEAN} :
         /\ offers = [o \in OfferIds |-> [quantity |-> q, status |-> "active", expiry_date |-> e]]
         /\ initial_quantity = [o \in OfferIds |-> q]
    /\ bookings = <<>>
    /\ today = 1
    /\ pc = [p \in Procs |-> "idle"]
    /\ loc = [p \in Procs |-> NoLoc]
    /\ log = <<>>
    /\ nops = 0
    /\ deployment = [serial |-> TRUE, calls |-> MaxSweepOps]
    /\ stores = [s \in StoreIds |-> [status |-> "active"]]
    /\ user_requests = [k \in RateKeys |-> <<>>]
    /\ clock = 0
    /\ cache = [k \in CacheKeys |-> Miss]

ExpirySpec == InitExpiry /\ [][SweepNext]_vars

\* ----------------------------------------------------------------- ApiSpec
\* the booking entry points alone: the handler and create_booking_atomic
\* called directly, with MaxCodes possible booking codes
InitApi ==
    /\ \E q \in 1..MaxQty :
         /\ offers = [o \in OfferIds |-> [quantity |-> q, status |-> "active", expiry_date |-> NULL]]
         /\ initial_quantity = [o \in OfferIds |-> q]
    /\ bookings = <<>>
    /\ today = 1
    /\ pc = [p \in Procs |-> "idle"]
    /\ loc = [p \in Procs |-> NoLoc]
    /\ log = <<>>
    /\ nops = 0
    /\ deployment = [serial |-> TRUE, calls |-> MaxApiOps]
    /\ stores = [s \in StoreIds |-> [status |-> "active"]]
    /\ user_requests = [k \in RateKeys |-> <<>>]
    /\ clock = 0
    /\ cache = [k \in CacheKeys |-> Miss]

ApiStep(p) ==
    \/ \E o \in OfferRefs, n \in (-1)..MaxQty : ReserveCheck(p, o, n)
    \/ \E c \in BookingCodes, fault \in BOOLEAN : ReserveAtomic(p, c, fault)
    \/ \E o \in OfferRefs, n \in (-1)..MaxQty, c \in BookingCodes, fault \in BOOLEAN :
          CallCreateBookingAtomic(p, o, n, c, fault)
    \/ \E b \in 1..(Len(bookings) + 1) : CancelGet(p, b)
    \/ CancelStatus(p)
    \/ IncrementRead(p)
    \/ IncrementWrite(p)

ApiNext == \E p \in Procs : ApiStep(p)

ApiSpec == InitApi /\ [][ApiNext]_vars

\* ------------------------------------------------------- derived quantities
Idle == \A p \in Procs : pc[p] = "idle"

RECURSIVE BookedQty(_, _, _)
\* the sum of quantity over the bookings of offer_id whose status is in sts
BookedQty(bks, offer_id, sts) ==
    IF bks = <<>> THEN 0
    ELSE (IF Head(bks).offer_id = offer_id /\ Head(bks).status \in sts THEN Head(bks).quantity ELSE 0)
         + BookedQty(Tail(bks), offer_id, sts)

RECURSIVE SumN(_, _)
\* the sum of the n field over the log entries whose index is in idx
SumN(l, idx) ==
    IF idx = {} THEN 0
    ELSE LET i == CHOOSE x \in idx : TRUE IN l[i].n + SumN(l, idx \ {i})

\* answers of book_offer_quantity that tell the buyer the quantity is not available
Exhausted == {"only_available", "no_longer_available"}

Calls(op) == {i \in 1..Len(log) : log[i].op = op}
Booked == {i \in Calls("reserve") : log[i].outcome = "booked"}

\* all calls so far were Reserve calls with n >= 1, all have returned, none hit a fault
OnlyReserves ==
    /\ Idle
    /\ \A i \in 1..Len(log) : log[i].op = "reserve" /\ log[i].n >= 1 /\ ~log[i].fault

\* ------------------------------------------------------------------ claims

\* C1: conservation.  For every offer, whenever no call is in progress, the
\* remaining quantity plus the quantities of its pending, confirmed and
\* completed bookings equals the initial quantity.
C1_Conservation ==
    Idle => \A o \in OfferIds :
        offers[o].quantity + BookedQty(bookings, o, {"pending", "confirmed", "completed"})
            = initial_quantity[o]

\* C2: no oversell.  For every offer the quantities of its pending and
\* confirmed bookings never sum to more than the initial quantity.
C2_NoOversell ==
    \A o \in OfferIds :
        BookedQty(bookings, o, {"pending", "confirmed"}) <= initial_quantity[o]

\* C3: two Reserve calls for 1 unit each, overlapping in any way, against an
\* offer with 1 unit left: exactly one is booked, the other is told the quantity is
\* not available, and the offer ends with quantity 0 and status inactive.
C3_TwoForLastUnit ==
    \A o \in OfferIds :
        ( /\ OnlyReserves
          /\ Len(log) = 2
          /\ initial_quantity[o] = 1
          /\ log[1].arg = o /\ log[2].arg = o
          /\ log[1].n = 1 /\ log[2].n = 1 )
        => /\ Cardinality(Booked) = 1
           /\ \A i \in {1, 2} \ Booked : log[i].outcome \in Exhausted
           /\ Len(bookings) = 1
           /\ offers[o].quantity = 0
           /\ offers[o].status = "inactive"

\* C3 witness: both calls passed the pre-check while 1 unit was left; one lost
\* inside create_booking_atomic.
C3_Witness ==
    /\ OnlyReserves /\ Len(log) = 2
    /\ initial_quantity[1] = 1
    /\ log[1].n = 1 /\ log[2].n = 1
    /\ log[1].outcome = "booked" /\ log[2].outcome = "no_longer_available"

\* C4: a Reserve for more than the currently remaining quantity is answered
\* "not available", creates no booking and leaves the offer as it was.
C4_OverAskFails ==
    [][ /\ \A p \in Procs :
             ( /\ pc[p] = "r_atomic" /\ pc'[p] = "idle"
               /\ loc[p].quantity > offers[loc[p].offer_id].quantity )
             => /\ log'[loc[p].op_id].outcome \in Exhausted
                /\ UNCHANGED <<offers, bookings>>
        /\ ( /\ nops' = nops + 1
             /\ log'[nops'].op = "reserve"
             /\ log'[nops'].n > offers[log'[nops'].arg].quantity )
           => /\ log'[nops'].outcome \in Exhausted
              /\ UNCHANGED <<offers, bookings>>
      ]_vars

\* C4 witness: a call that passed the pre-check found fewer units than it asked
\* for inside create_booking_atomic.
C4_Witness ==
    \E i \in Calls("reserve") :
        /\ log[i].outcome = "no_longer_available" /\ ~log[i].fault
        /\ log[i].n > offers[log[i].arg].quantity
        /\ offers[log[i].arg].quantity > 0

\* the largest number of calls whose quantities sum to at most q
MaxCount(l, q) ==
    LET fits == {S \in SUBSET (1..Len(l)) : SumN(l, S) <= q}
    IN CHOOSE k \in 0..Len(l) :
          /\ \E S \in fits : Cardinality(S) = k
          /\ \A S \in fits : Cardinality(S) <= k

Released(b) == SumN(log, {i \in Calls("cancel") : log[i].arg = b})

C7_TerminalImmutable ==
    [][ /\ \A b \in 1..Len(bookings) :
             bookings[b].status \in {"completed", "cancelled"}
                => bookings'[b].status = bookings[b].status
        /\ ( /\ nops' = nops + 1
             /\ log'[nops'].op \in {"cancel", "complete"}
             /\ log'[nops'].arg \in 1..Len(bookings)
             /\ bookings[log'[nops'].arg].status \in {"completed", "cancelled"} )
           => /\ log'[nops'].outcome = "silent"
              /\ UNCHANGED <<offers, bookings, pc>>
      ]_vars

\* C8: a Cancel and a Complete on the same booking never both succeed, and the
\* quantity has been credited exactly when the booking ended up cancelled.
C8_OneWinner ==
    \A i \in Calls("cancel"), j \in Calls("complete") :
        ( /\ log[i].arg = log[j].arg
          /\ log[i].arg \in 1..Len(bookings)
          /\ log[i].outcome # "running" /\ log[j].outcome # "running" )
        => /\ ~(log[i].outcome = "cancelled_msg" /\ log[j].outcome = "completed_msg")
           /\ (Released(log[i].arg) > 0) <=> (bookings[log[i].arg].status = "cancelled")

\* C9: a Reserve on an offer whose expiry date has passed is refused, whatever
\* the offer's recorded status, and changes neither the offers nor the bookings.
C9_ExpiredNotReservable ==
    [][ \A p \in Procs :
          ( /\ pc[p] = "r_atomic" /\ pc'[p] = "idle"
            /\ Expired(offers[loc[p].offer_id]) )
          => /\ log'[loc[p].op_id].outcome # "booked"
             /\ UNCHANGED <<offers, bookings>>
      ]_vars

\* C10: Reserve is all or nothing.  A call that returns either is booked, with
\* the offer decremented by n and one pending booking for n appended, or is not
\* booked and leaves offers and bookings as they were; so there are as many
\* bookings as committed decrements.
C10_AllOrNothing ==
    [][ /\ \A p \in Procs :
             (pc[p] = "r_atomic" /\ pc'[p] = "idle") =>
                LET o == loc[p].offer_id
                    n == loc[p].quantity
                IN \/ /\ log'[loc[p].op_id].outcome = "booked"
                      /\ offers'[o].quantity = offers[o].quantity - n
                      /\ Len(bookings') = Len(bookings) + 1
                      /\ SubSeq(bookings', 1, Len(bookings)) = bookings
                      /\ bookings'[Len(bookings')].offer_id = o
                      /\ bookings'[Len(bookings')].quantity = n
                      /\ bookings'[Len(bookings')].status = "pending"
                   \/ /\ log'[loc[p].op_id].outcome # "booked"
                      /\ UNCHANGED <<offers, bookings>>
        /\ (nops' = nops + 1 /\ log'[nops'].op = "reserve") => UNCHANGED <<offers, bookings>>
        /\ Len(bookings') = Cardinality(Booked')
      ]_vars

\* C10 witness: a call whose transaction raised after the UPDATE and was rolled
\* back, next to a call that was booked.
C10_Witness ==
    /\ \E i \in Calls("reserve") : log[i].fault /\ log[i].outcome = "no_longer_available"
    /\ Booked # {}
    /\ Idle

\* the remaining quantity of the offer when call i started, in a deployment that
\* runs one handler at a time: the initial quantity, minus what earlier calls
\* booked, plus what earlier calls credited
QtyBefore(o, i) ==
    initial_quantity[o] - SumN(log, {j \in Booked : j < i})
                        + SumN(log, {j \in Calls("cancel") : j < i})

\* the booking created by the booked Reserve call i
BookingOf(i) == Cardinality({j \in Booked : j <= i})

\* the last two calls are a booked Reserve and a Cancel of the booking it made
RoundTrip(o) ==
    /\ Idle /\ Len(log) >= 2
    /\ LET i == Len(log) - 1
       IN /\ i \in Booked /\ log[i].arg = o
          /\ log[i + 1].op = "cancel" /\ log[i + 1].arg = BookingOf(i)

\* C11: a booked Reserve(offer, n) followed directly by the Cancel of its
\* booking leaves the offer with the quantity it had before the Reserve, and
\* active (also when the Reserve took the last units and deactivated it).
C11_RoundTrip ==
    \A o \in OfferIds :
        RoundTrip(o) =>
            /\ log[Len(log)].outcome = "cancelled_msg"
            /\ offers[o].quantity = QtyBefore(o, Len(log) - 1)
            /\ offers[o].status = "active"
            /\ bookings[log[Len(log)].arg].status = "cancelled"

\* C11 witness: the Reserve took all the units (the offer went inactive at
\* quantity 0) and the Cancel gave them back.
C11_Witness ==
    /\ RoundTrip(1)
    /\ log[Len(log) - 1].n = QtyBefore(1, Len(log) - 1)
    /\ log[Len(log)].n = log[Len(log) - 1].n
    /\ offers[1].quantity = initial_quantity[1]

\* C12: in every reachable state an offer whose quantity is 0 is not active.
C12_ZeroNotActive ==
    \A o \in DOMAIN offers : offers[o].quantity = 0 => offers[o].status # "active"

\* this step is one round of the sweeper
SweepRuns == nops' = nops + 1 /\ log'[nops'].op = "sweep"

Inactive(ofs) == {o \in DOMAIN ofs : ofs[o].status = "inactive"}

\* C13: the sweep is idempotent.  Applied to its own result on the same date it
\* changes nothing and counts 0; and a round that directly follows another round
\* (same date, no call in between) reports 0 deactivated offers and leaves the
\* set of inactive offers as the first round left it.
C13_SweepIdempotent ==
    [][ SweepRuns =>
          LET once == delete_expired_offers(offers)
              twice == delete_expired_offers(once.offers)
          IN /\ offers' = once.offers
             /\ log'[nops'].n = once.rowcount
             /\ twice.offers = once.offers
             /\ twice.rowcount = 0
             /\ ( /\ Len(log) >= 1
                  /\ log[Len(log)].op = "sweep"
                  /\ log[Len(log)].arg = today )
                => /\ log'[nops'].n = 0
                   /\ Inactive(offers') = Inactive(offers)
                   /\ offers' = offers
      ]_vars

\* C13 witness: a round that deactivated an expired offer, directly followed by
\* a second round on the same date.
C13_Witness ==
    \E i \in Calls("sweep") :
        /\ i + 1 \in Calls("sweep")
        /\ log[i].arg = log[i + 1].arg
        /\ log[i].n >= 1 /\ log[i + 1].n = 0
        /\ Inactive(offers) # {}

\* C14: a round of the sweeper changes the status of offers and nothing else:
\* quantities, expiry dates, the set of offers and all bookings stay as they were.
C14_SweepFrame ==
    [][ SweepRuns =>
          /\ bookings' = bookings
          /\ DOMAIN offers' = DOMAIN offers
          /\ \A o \in DOMAIN offers :
                /\ offers'[o].quantity = offers[o].quantity
                /\ offers'[o].expiry_date = offers[o].expiry_date
          /\ UNCHANGED <<initial_quantity, pc, loc>>
      ]_vars

\* C14 witness: the sweeper deactivated an offer that has units left and a
\* pending booking.
C14_Witness ==
    /\ Len(log) >= 1
    /\ log[Len(log)].op = "sweep" /\ log[Len(log)].n >= 1
    /\ \E b \in 1..Len(bookings) :
          /\ bookings[b].status = "pending"
          /\ offers[bookings[b].offer_id].quantity > 0
          /\ offers[bookings[b].offer_id].status = "inactive"

\* this step starts a Reserve, through the handler or through the method
ReserveStarts ==
    nops' = nops + 1 /\ log'[nops'].op \in {"reserve", "create_booking_atomic"}

\* C15: a Reserve with n < 1, through book_offer_quantity or through
\* create_booking_atomic itself, is refused, creates no booking and leaves the
\* offers as they were.
C15_InvalidQuantity ==
    [][ (ReserveStarts /\ log'[nops'].n < 1) =>
          /\ log'[nops'].outcome \in {"invalid_quantity", "refused"}
          /\ UNCHANGED <<offers, bookings, pc>>
      ]_vars

\* the id names no row, or a row that is inactive or deleted
Unavailable(o) == o \notin DOMAIN offers \/ offers[o].status \in {"inactive", "deleted"}

\* the answers of book_offer_quantity that refuse the reservation
Refusals == {"invalid_quantity", "error_msg", "only_available", "no_longer_available"}

C17_UniqueCodes ==
    \A a, b \in 1..Len(bookings) :
        ( /\ a # b
          /\ bookings[a].quantity >= 1 /\ bookings[b].quantity >= 1
          /\ bookings[a].status = "pending" /\ bookings[b].status = "pending" )
        => bookings[a].booking_code # bookings[b].booking_code

\* the Cancel calls that wrote a credit for booking b
Credits(b) == {i \in Calls("cancel") : log[i].arg = b /\ log[i].n > 0}

\* C18: however Cancel calls on one booking overlap, at most one of them
\* credits the booking's quantity back to the offer.
C18_CreditOnce ==
    \A b \in 1..Len(bookings) : Cardinality(Credits(b)) <= 1

\* C19: no update of the quantity is lost.  When no call is in progress and no
\* booking was credited twice, the remaining quantity is the initial quantity
\* minus every booked quantity plus every credited quantity.
C19_NoLostUpdate ==
    \A o \in OfferIds :
        (Idle /\ \A b \in 1..Len(bookings) : Cardinality(Credits(b)) <= 1)
        => offers[o].quantity = initial_quantity[o] - SumN(log, Booked)
                                                    + SumN(log, Calls("cancel"))

\* C20: the credit written by a Cancel never changes the status of a deleted
\* offer.
C20_DeletedStaysDeleted ==
    [][ \A p \in Procs :
          ( /\ pc[p] = "c_write" /\ pc'[p] = "idle"
            /\ offers[loc[p].offer_id].status = "deleted" )
          => offers'[loc[p].offer_id].status = "deleted"
      ]_vars

\* C21: the credit written by a Cancel activates only an offer that is inactive
\* by exhaustion.  An inactive offer that still has units (deactivated by the
\* seller, the sweeper or a store block) or that is past its expiry date stays
\* inactive.
C21_OnlyExhaustionReactivates ==
    [][ \A p \in Procs :
          ( /\ pc[p] = "c_write" /\ pc'[p] = "idle"
            /\ offers[loc[p].offer_id].status = "inactive"
            /\ (offers[loc[p].offer_id].quantity > 0 \/ Expired(offers[loc[p].offer_id])) )
          => offers'[loc[p].offer_id].status = "inactive"
      ]_vars

C26_StatusBeforeCredit ==
    /\ \A b \in 1..Len(bookings) :
          Credits(b) # {} => bookings[b].status \notin {"pending", "confirmed"}
    /\ \A p \in Procs :
          pc[p] \in {"c_read", "c_write"}
             => bookings[loc[p].booking_id].status \notin {"pending", "confirmed"}

\* C26 witness: a Cancel has set its booking to cancelled and has read the
\* quantity, and no credit for the booking has been written yet.
C26_Witness ==
    \E p \in Procs :
        /\ pc[p] = "c_write"
        /\ bookings[loc[p].booking_id].status = "cancelled"
        /\ Credits(loc[p].booking_id) = {}

\* the booking named by the call that this step starts is missing, completed or
\* cancelled
NotPermitted(booking_id) ==
    \/ booking_id \notin 1..Len(bookings)
    \/ bookings[booking_id].status \in {"completed", "cancelled"}

\* C27: a Cancel or a Complete on a booking that is missing, completed or
\* cancelled is answered with an error: not with the answer of a success, and
\* not with an empty answer.
C27_ErrorReported ==
    [][ ( /\ nops' = nops + 1
          /\ log'[nops'].op \in {"cancel", "complete"}
          /\ NotPermitted(log'[nops'].arg) )
        => log'[nops'].outcome \notin {"silent", "running", "cancelled_msg", "completed_msg"}
      ]_vars

\* C28: a Reserve that failed on an exception inside the transaction is not
\* answered like a Reserve that found too few units.
C28_FaultDistinct ==
    \A i \in Calls("reserve") : log[i].fault => log[i].outcome \notin Exhausted

C30_RemainingIsInitialMinusOpen ==
    Idle => \A o \in OfferIds :
        offers[o].quantity = initial_quantity[o] - BookedQty(bookings, o, {"pending", "confirmed"})

C25_CompleteFrame ==
    [][ \A p \in Procs :
          (pc[p] \in {"k_update", "k_code"} /\ pc'[p] = "idle")
          => /\ offers' = offers
             /\ Len(bookings') = Len(bookings)
             /\ \A b \in 1..Len(bookings) :
                  bookings'[b] = IF b = loc[p].booking_id
                                 THEN [bookings[b] EXCEPT !.status = "completed"]
                                 ELSE bookings[b]
      ]_vars

\* two bookings were made, the seller typed a pickup code and one of them was
\* completed: the other is still pending and the offer holds what the two
\* reservations left
C25_Witness ==
    /\ Idle
    /\ \E i \in DOMAIN log, x \in 1..Len(bookings) :
         /\ log[i].op = "complete_code" /\ log[i].outcome = "order_confirmed"
         /\ bookings[log[i].n].status = "completed"
         /\ x # log[i].n
         /\ bookings[x].status = "pending"
         /\ offers[bookings[x].offer_id].quantity =
                initial_quantity[bookings[x].offer_id] - SumN(log, Booked)

\* C23: Reserve succeeds only for an offer whose store is approved (store
\* status active): a booking is created only while the store of the offer is
\* active, also after a Cancel on an offer of a blocked store.
C23_ReserveOnlyApprovedStore ==
    [][ Len(bookings') > Len(bookings)
        => stores[store_id(bookings'[Len(bookings')].offer_id)].status = "active"
      ]_vars

\* seller quantity edits that have returned after writing
Edits(op) == {i \in Calls(op) : log[i].outcome = "done"}

\* C34: a seller quantity edit that overlaps a Reserve on the same offer never
\* overwrites the reservation's change: once all calls have returned, and as
\* long as the floor at 0 was not needed, the quantity is the initial quantity
\* minus what was reserved, plus the "plus" edits, minus the "minus" edits.
C34_EditKeepsReservation ==
    ( /\ Idle
      /\ \A i \in DOMAIN log : log[i].op \in {"reserve", "qty_add", "qty_sub", "sweep"}
      /\ \A o \in OfferIds :
           initial_quantity[o] - SumN(log, Booked) - Cardinality(Edits("qty_sub")) >= 0 )
    => \A o \in OfferIds :
         offers[o].quantity = initial_quantity[o] - SumN(log, Booked)
                              + Cardinality(Edits("qty_add")) - Cardinality(Edits("qty_sub"))

\* bookings that carry the code and are pending
PendingWithCode(booking_code) ==
    {b \in 1..Len(bookings) : bookings[b].booking_code = booking_code /\ bookings[b].status = "pending"}

\* C35: completing by pickup code changes a booking only if that booking was
\* pending, with that code, when the handler looked it up; a code that belongs
\* to no pending booking is answered booking-not-found and nothing changes.
C35_CompleteByCode ==
    [][ /\ (nops' = nops + 1 /\ log'[nops'].op = "complete_code")
           => /\ bookings' = bookings /\ offers' = offers
              /\ IF PendingWithCode(log'[nops'].arg) = {}
                 THEN log'[nops'].outcome = "booking_not_found" /\ pc' = pc
                 ELSE log'[nops'].outcome = "running" /\ log'[nops'].n \in PendingWithCode(log'[nops'].arg)
        /\ \A p \in Procs :
             (pc[p] = "k_code" /\ pc'[p] = "idle")
             => /\ offers' = offers
                /\ \A b \in 1..Len(bookings) :
                     bookings'[b] # bookings[b] => b = log[loc[p].op_id].n
      ]_vars

\* a booking was completed by its pickup code; the same code typed again was
\* answered booking-not-found
C35_Witness ==
    /\ Idle
    /\ \E i, j \in DOMAIN log :
         /\ i < j
         /\ log[i].op = "complete_code" /\ log[i].outcome = "order_confirmed"
         /\ bookings[log[i].n].status = "completed"
         /\ log[j].op = "complete_code" /\ log[j].outcome = "booking_not_found"
         /\ log[j].arg = bookings[log[i].n].booking_code

\* C36: no operation ever sets a booking's status to confirmed: every
\* booking's status is pending, completed or cancelled, and when handlers do
\* not overlap every status change is pending to completed or pending to
\* cancelled.
C36_NoConfirmedStatus ==
    [][ /\ \A b \in 1..Len(bookings') : bookings'[b].status \in {"pending", "completed", "cancelled"}
        /\ \A b \in 1..Len(bookings) :
             bookings'[b].status # bookings[b].status
             => /\ bookings[b].status = "pending"
                /\ bookings'[b].status \in {"completed", "cancelled"}
      ]_vars

\* a booking was cancelled and a Complete on it was asked afterwards: it is
\* still cancelled
C36_Witness ==
    /\ Idle
    /\ \E i, j \in DOMAIN log :
         /\ i < j
         /\ log[i].op = "cancel" /\ log[i].outcome = "cancelled_msg"
         /\ log[j].op = "complete" /\ log[j].arg = log[i].arg
         /\ bookings[log[i].arg].status = "cancelled"

\* C33: offer rows are never physically removed: every offer that exists in a
\* state still exists in the next one, whatever operation ran (delete_store
\* and delete_user included).
C33_OffersNeverRemoved ==
    [][DOMAIN offers \subseteq DOMAIN offers']_vars

AllowedIn(l, k, a, b) ==
    {i \in DOMAIN l : /\ l[i].op = "is_allowed" /\ l[i].arg = k /\ l[i].outcome = "allowed"
                      /\ l[i].n >= a /\ l[i].n <= b}

\* C38: for every user and action, among the calls that is_allowed answers
\* True at most max_requests fall within any span shorter than
\* window_seconds; a denied call records no timestamp: it leaves the list of
\* the pair with the timestamps still inside the window and nothing else.
C38_RateLimit ==
    [][ /\ \A k \in RateKeys, a \in 0..MaxClock :
             Cardinality(AllowedIn(log', k, a, a + RL_WINDOW - 1)) <= RL_MAX
        /\ (nops' = nops + 1 /\ log'[nops'].op = "is_allowed" /\ log'[nops'].outcome = "denied")
           => /\ user_requests'[log'[nops'].arg]
                   = CleanOld(user_requests[log'[nops'].arg], clock, RL_WINDOW)
              /\ \A k \in RateKeys : k # log'[nops'].arg => user_requests'[k] = user_requests[k]
      ]_vars

\* a pair used up its requests, a further call was denied, and once the
\* window had passed the next call was allowed
C38_Witness ==
    \E k \in RateKeys, i, j \in DOMAIN log :
        /\ i < j
        /\ log[i].op = "is_allowed" /\ log[i].arg = k /\ log[i].outcome = "denied"
        /\ Cardinality(AllowedIn(log, k, log[i].n - RL_WINDOW + 1, log[i].n)) = RL_MAX
        /\ log[j].op = "is_allowed" /\ log[j].arg = k /\ log[j].outcome = "allowed"
        /\ log[j].n = log[i].n + RL_WINDOW - 1

PastExpiry(o) == offers[o].expiry_date # NULL /\ EnteredDay(offers[o].expiry_date) < today

====
